---- MODULE Spec2Model ----
(***************************************************************************)
(* PrivateTube: the view-state controller (Index), the credential setup    *)
(* form (ApiKeySetup) and the transcript acquisition of the chat and       *)
(* player screens (VideoChat, VideoPlayer), with the two transcript        *)
(* parsers.                                                                *)
(*                                                                         *)
(* Text is a sequence of one-character strings, so that trim, the          *)
(* timestamp pattern and parseFloat are computed character by character.   *)
(* Numbers of seconds are held in tenths of a second.                      *)
(***************************************************************************)
EXTENDS Integers, Sequences, FiniteSets, Bags, TLC

VARIABLES
    storage,            \* localStorage: youtube_api_key, gemini_api_key
    mounted,            \* Index's mount effect has run
    currentView,        \* Index: "setup" | "search" | "player" | "chat"
    apiKeys,            \* Index: NoKeys or [youtube, gemini]
    videos,             \* Index: the video list of the search screen
    selectedVideo,      \* Index: NoVideo or a video id
    videoTranscript,    \* Index: the controller's transcript
    isLoading,          \* Index: a search is running
    form,               \* ApiKeySetup: the two input fields
    search,             \* the searchVideos calls in flight
    tasks,              \* the transcript acquisitions in flight
    chat,               \* VideoChat: the component state
    player,             \* VideoPlayer: the component state
    toast,              \* the notification raised by the latest step
    last,               \* the acquisition that completed in the latest step
    notesStore,         \* local storage: the video_notes_<id> entries
    parse               \* a parser applied to a payload, and what it gave

vars == <<storage, mounted, currentView, apiKeys, videos, selectedVideo,
          videoTranscript, isLoading, form, search, tasks, chat, player,
          toast, last, notesStore, parse>>

\* null where a text is expected (a text holds one-character strings only)
NULL == <<"null">>
\* null where a video is expected
NoVideo == "null"
\* a number: NaN, or val tenths
Num(n) == [nan |-> FALSE, val |-> n]
NaN == [nan |-> TRUE, val |-> 0]

(***************************************************************************)
(* Bounds of the model.                                                    *)
(***************************************************************************)
MaxTasks == 2           \* transcript acquisitions in flight at once
MaxElements == 2        \* <text> elements of an XML payload tried
MaxLines == 2           \* lines of a plain-text payload tried
MaxSends == 2           \* questions accepted by one chat

(***************************************************************************)
(* Text                                                                    *)
(***************************************************************************)
Digits == <<"0", "1", "2", "3", "4", "5", "6", "7", "8", "9">>

IsDigit(c) == \E i \in 1..Len(Digits) : Digits[i] = c

DigitVal(c) == (CHOOSE i \in 1..Len(Digits) : Digits[i] = c) - 1

\* tenths of a second in one second
Unit == Len(Digits)

IsSpace(c) == c = " "

RECURSIVE TrimStart(_)
TrimStart(s) ==
    IF s # <<>> /\ IsSpace(Head(s)) THEN TrimStart(Tail(s)) ELSE s

RECURSIVE TrimEnd(_)
TrimEnd(s) ==
    IF s # <<>> /\ IsSpace(s[Len(s)])
    THEN TrimEnd(SubSeq(s, 1, Len(s) - 1))
    ELSE s

\* String.prototype.trim
Trim(s) == TrimEnd(TrimStart(s))

RECURSIVE DigitPrefix(_)
DigitPrefix(s) ==
    IF s # <<>> /\ IsDigit(Head(s))
    THEN <<Head(s)>> \o DigitPrefix(Tail(s))
    ELSE <<>>

RECURSIVE DecVal(_)
DecVal(ds) ==
    IF ds = <<>> THEN 0
    ELSE DecVal(SubSeq(ds, 1, Len(ds) - 1)) * 10 + DigitVal(ds[Len(ds)])

\* parseInt of a string of digits
ParseInt(ds) == DecVal(ds)

\* parseFloat: leading blanks skipped, an optional sign, the longest prefix
\* digits [. digits]; NaN when there is no such prefix.  The value is in
\* tenths: the first fractional digit is kept.
ParseFloat(s) ==
    LET t    == TrimStart(s)
        sgn  == IF t # <<>> /\ Head(t) = "-" THEN -1 ELSE 1
        u    == IF t # <<>> /\ Head(t) \in {"-", "+"} THEN Tail(t) ELSE t
        ip   == DigitPrefix(u)
        rest == SubSeq(u, Len(ip) + 1, Len(u))
        fp   == IF rest # <<>> /\ Head(rest) = "."
                THEN DigitPrefix(Tail(rest))
                ELSE <<>>
        tenth == IF fp = <<>> THEN 0 ELSE DigitVal(fp[1])
    IN  IF ip = <<>> /\ fp = <<>>
        THEN NaN
        ELSE Num(sgn * (DecVal(ip) * Unit + tenth))

\* the quotient of integers rounded towards minus infinity, b > 0
FloorDiv(a, b) == IF a >= 0 THEN a \div b ELSE -((b - a - 1) \div b)

\* the quotient of integers rounded towards zero, b > 0
TruncDiv(a, b) == IF a >= 0 THEN a \div b ELSE -((-a) \div b)

\* Math.floor(x / n) for a whole number n > 0
FloorOfQuotient(x, n) ==
    IF x.nan THEN NaN ELSE Num(FloorDiv(x.val, n * Unit) * Unit)

\* Math.floor(x % n) for a whole number n > 0: the remainder has the sign
\* of x
FloorOfRemainder(x, n) ==
    IF x.nan THEN NaN
    ELSE Num(FloorDiv(x.val - (n * Unit) * TruncDiv(x.val, n * Unit), Unit)
                * Unit)

RECURSIVE NatString(_)
NatString(n) ==
    IF n < Len(Digits) THEN <<Digits[n + 1]>>
    ELSE NatString(n \div Len(Digits)) \o <<Digits[(n % Len(Digits)) + 1]>>

\* String(x) for a whole number x
NumberString(x) ==
    IF x.nan THEN <<"N", "a", "N">>
    ELSE IF x.val < 0 THEN <<"-">> \o NatString((-x.val) \div Unit)
    ELSE NatString(x.val \div Unit)

\* s.padStart(2, '0')
PadStart2(s) == IF Len(s) < 2 THEN <<"0">> \o s ELSE s

(***************************************************************************)
(* The transcript parsers.  A payload is one string seen three ways:       *)
(*   root   the string contains "<transcript>"                             *)
(*   texts  the <text> elements DOMParser finds in it, in document order,  *)
(*          each [start, dur, content]; an absent attribute is NULL        *)
(*   lines  the string split at "\n"                                       *)
(***************************************************************************)

\* getAttribute(name) || "0"
OrZero(attr) == IF attr = NULL \/ attr = <<>> THEN <<"0">> ELSE attr

\* the entry pushed for one <text> element
ElementEntry(element) ==
    [text     |-> element.content,
     duration |-> ParseFloat(OrZero(element.dur)),
     offset   |-> ParseFloat(OrZero(element.start))]

\* a loop that skips the elements without text
RECURSIVE ParseElements_SkipsEmpty(_)
ParseElements_SkipsEmpty(textElements) ==
    IF textElements = <<>> THEN <<>>
    ELSE (IF Head(textElements).content = <<>>
          THEN <<>>
          ELSE <<ElementEntry(Head(textElements))>>)
            \o ParseElements_SkipsEmpty(Tail(textElements))

RECURSIVE ParseElements(_)
ParseElements(textElements) ==
    IF textElements = <<>> THEN <<>>
    ELSE <<ElementEntry(Head(textElements))>>
            \o ParseElements(Tail(textElements))

parseTranscriptXML(payload) == ParseElements(payload.texts)

IsOpen(c) == c \in {"[", "("}
IsClose(c) == c \in {"]", ")"}

\* the pattern [\[\(](\d{1,2}):(\d{2})[\]\)] tried at position i:
\* the number of minute digits it matches with, 0 when it does not match
MinuteDigitsAt(line, i) ==
    IF i + 6 <= Len(line) /\ IsOpen(line[i])
       /\ IsDigit(line[i + 1]) /\ IsDigit(line[i + 2]) /\ line[i + 3] = ":"
       /\ IsDigit(line[i + 4]) /\ IsDigit(line[i + 5]) /\ IsClose(line[i + 6])
    THEN 2
    ELSE IF i + 5 <= Len(line) /\ IsOpen(line[i])
            /\ IsDigit(line[i + 1]) /\ line[i + 2] = ":"
            /\ IsDigit(line[i + 3]) /\ IsDigit(line[i + 4])
            /\ IsClose(line[i + 5])
    THEN 1
    ELSE 0

\* line.match(...): the leftmost position the pattern matches at, 0 if none
MatchPos(line) ==
    IF \E i \in 1..Len(line) : MinuteDigitsAt(line, i) > 0
    THEN CHOOSE i \in 1..Len(line) :
            /\ MinuteDigitsAt(line, i) > 0
            /\ \A j \in 1..(i - 1) : MinuteDigitsAt(line, j) = 0
    ELSE 0

\* line.replace(/[\[\(]\d{1,2}:\d{2}[\]\)]\s*/, ''): the first match and
\* the white space after it removed
StripTimestamp(line) ==
    LET p == MatchPos(line)
        d == MinuteDigitsAt(line, p)
        after == SubSeq(line, p + d + 5, Len(line))
    IN  IF p = 0 THEN line
        ELSE SubSeq(line, 1, p - 1) \o TrimStart(after)

\* the segment a line contributes: << >> or one entry
LineEntries(line) ==
    LET p == MatchPos(line)
        d == MinuteDigitsAt(line, p)
        minutes == ParseInt(SubSeq(line, p + 1, p + d))
        seconds == ParseInt(SubSeq(line, p + d + 2, p + d + 3))
        textContent == Trim(StripTimestamp(line))
    IN  IF p = 0 \/ textContent = <<>>
        THEN <<>>
        ELSE <<[text     |-> textContent,
                duration |-> Num(0),
                offset   |-> Num((minutes * 60 + seconds) * Unit)]>>

RECURSIVE ParseLines(_)
ParseLines(lines) ==
    IF lines = <<>> THEN <<>>
    ELSE LineEntries(Head(lines)) \o ParseLines(Tail(lines))

parseTranscriptText(payload) ==
    IF payload.root
    THEN parseTranscriptXML(payload)
    ELSE ParseLines(payload.lines)

(***************************************************************************)
(* The remote endpoints.  What they answer is not decided by the program:  *)
(* every answer below is possible for every request.                       *)
(***************************************************************************)
VideoIds == {"A", "B"}

\* the caption text of video v
Caption(v) == <<v, "!">>

\* transcript-XML with two <text> elements without dur, at 5 s and 7 s
XmlPayload(v) ==
    [root  |-> TRUE,
     texts |-> <<[start |-> <<"5">>, dur |-> NULL, content |-> Caption(v)],
                 [start |-> <<"7">>, dur |-> NULL, content |-> <<"o", "k">>]>>,
     lines |-> <<>>]

\* a 2xx answer with an empty body
EmptyPayload ==
    [root |-> FALSE, texts |-> <<>>, lines |-> << <<>> >>]

\* plain text: a line without a timestamp, then "[0:05] <caption>" and
\* "[0:07] ok"
TextPayload(v) ==
    [root  |-> FALSE,
     texts |-> <<>>,
     lines |-> << <<"W", "E", "B", "V", "T", "T">>,
                  <<"[", "0", ":", "0", "5", "]", " ">> \o Caption(v),
                  <<"[", "0", ":", "0", "7", "]", " ", "o", "k">> >>]

\* what the caption-content endpoint may send for video v
ContentPayloads(v) == {XmlPayload(v), TextPayload(v), EmptyPayload}

\* what the public timed-text endpoint may send for video v
TimedtextPayloads(v) == {XmlPayload(v), EmptyPayload}

\* the transcripts that are transcripts of video v
TranscriptsOf(v) ==
    {parseTranscriptText(p) : p \in ContentPayloads(v)}
        \cup {parseTranscriptXML(p) : p \in TimedtextPayloads(v)}

Failures == {"throw", "non2xx"}

\* answers to the caption-listing request
ListAnswers == Failures \cup {"malformed", "noitems", "items"}

\* answers to the search request: a failure or the ids of the items
SearchAnswers == Failures \cup {"malformed"}
ResultLists == {<<>>, <<"A", "B">>}

\* answers to a summary request
SummaryAnswers == Failures \cup {"text", "notext"}

(***************************************************************************)
(* Credentials typed by the user: nothing, blanks only, a key, a key       *)
(* between blanks.                                                         *)
(***************************************************************************)
KeyInputs(c) == {<<>>, <<" ">>, <<c>>, <<" ", c, " ">>}

YoutubeInputs == KeyInputs("y")
GeminiInputs == KeyInputs("g")

\* what handleSubmit can have written in an earlier session
StoredKeys(inputs) == {Trim(x) : x \in inputs} \ {<<>>}

\* JavaScript truthiness of a string or null
Truthy(x) == x # NULL /\ x # <<>>

(***************************************************************************)
(* State of the components and of the asynchronous handlers.               *)
(***************************************************************************)
NoKeys == [youtube |-> NULL, gemini |-> NULL]

EmptyForm == [youtubeKey |-> <<>>, geminiKey |-> <<>>]

\* VideoChat as useState initialises it, for the transcript prop of the
\* first render
ChatInit(transcript) ==
    [currentTranscript   |-> transcript,
     welcome             |-> IF Len(transcript) > 0 THEN "has" ELSE "basic",
     isLoadingTranscript |-> FALSE,
     isLoading           |-> FALSE,
     messages            |-> <<>>]

\* VideoChat's effect on [transcript, video.title]
ChatSyncEffect(c, transcript) ==
    IF Len(transcript) > 0
    THEN [c EXCEPT !.currentTranscript = transcript, !.welcome = "now"]
    ELSE c

\* no VideoChat is mounted
ChatOff == ChatInit(<<>>)

\* VideoPlayer as useState initialises it; also: no VideoPlayer is mounted
PlayerInit ==
    [transcript          |-> <<>>,
     showTranscript      |-> FALSE,
     isLoadingTranscript |-> FALSE,
     notes               |-> <<>>,
     timer               |-> FALSE]

\* VideoPlayer after its mount effects for video v: the stored notes are
\* loaded and the auto-save timer is set
PlayerMount(v) ==
    [PlayerInit EXCEPT !.notes = IF Truthy(notesStore[v])
                                 THEN notesStore[v]
                                 ELSE <<>>,
                       !.timer = TRUE]

ChatMounted == currentView = "chat" /\ selectedVideo # NoVideo
PlayerMounted == currentView = "player" /\ selectedVideo # NoVideo

\* kind: "auto" (Index.handleChatWithVideo), "chat" (VideoChat.loadTranscript),
\* "player" (VideoPlayer.fetchTranscript), "send" (VideoChat.sendMessage) or
\* "test" (VideoChat.testApiKey); pc: the request awaited;
\* orphan: the component that started it has been unmounted;
\* issued: the methods of the requests sent so far; failed: the methods
\* that have failed so far
IdleTask ==
    [kind |-> "none", video |-> NoVideo, pc |-> "idle", orphan |-> FALSE,
     issued |-> <<>>, failed |-> {}, body |-> <<>>]

NewTask(kind, video, pc, method) ==
    [kind |-> kind, video |-> video, pc |-> pc, orphan |-> FALSE,
     issued |-> <<method>>, failed |-> {}, body |-> <<>>]

\* the tasks in flight are a bag of task records
Running == BagToSet(tasks)

HasFreeSlot == BagCardinality(tasks) < MaxTasks

Started(t) == tasks (+) SetToBag({t})

\* the record of an acquisition that has returned: the method that took the
\* success path (0: none), whether it called a transcript setter and with
\* what segments, whether it raised the success notification, whether an
\* exception left the handler, whether the player-embed extraction ran, and
\* the last answer it received
NoLast ==
    [kind |-> "none", issued |-> <<>>, failed |-> {},
     succeeded |-> 0, wrote |-> FALSE, data |-> <<>>, reported |-> FALSE,
     threw |-> FALSE, tried3 |-> FALSE, answer |-> "none",
     description |-> <<>>]

\* task t returns; r holds the fields that differ from a silent failure
Returned(t, r) ==
    r @@ [kind |-> t.kind, issued |-> t.issued,
          failed |-> t.failed, succeeded |-> 0, wrote |-> FALSE,
          data |-> <<>>, reported |-> FALSE, threw |-> FALSE,
          tried3 |-> FALSE, answer |-> "none", description |-> <<>>]

\* the record when no history is kept
Off == [NoLast EXCEPT !.kind = "off"]

\* what the latest step leaves in last: rec, or nothing when no history is
\* kept
Record(rec) == IF last = Off THEN Off ELSE rec

NoSearch == [pc |-> "idle", items |-> <<>>, pending |-> 0]

\* no notes are stored for any video
NoNotes == [v \in VideoIds |-> NULL]

\* no parser has been applied
NoParse ==
    [parser |-> "none", payload |-> <<>>, entries |-> <<>>,
     saved |-> FALSE, content |-> <<>>]

(***************************************************************************)
(* Index: start-up and the credential form                                 *)
(***************************************************************************)
InitWith(history) ==
    /\ storage \in [youtube : StoredKeys(YoutubeInputs) \cup {NULL},
                    gemini  : StoredKeys(GeminiInputs) \cup {NULL}]
    /\ mounted = FALSE
    /\ currentView = "setup"
    /\ apiKeys = NoKeys
    /\ videos = <<>>
    /\ selectedVideo = NoVideo
    /\ videoTranscript = <<>>
    /\ isLoading = FALSE
    /\ form = EmptyForm
    /\ search = NoSearch
    /\ tasks = EmptyBag
    /\ chat = ChatOff
    /\ player = PlayerInit
    /\ toast = "none"
    /\ last = history
    /\ notesStore = NoNotes
    /\ parse = NoParse

Init == InitWith(NoLast)

\* the same start without the history of the acquisitions
QuietInit == InitWith(Off)

\* a mount effect that is content with one stored key
MountResult_EitherKey(youtubeKey, geminiKey) ==
    IF Truthy(youtubeKey) \/ Truthy(geminiKey)
    THEN [view |-> "search",
          keys |-> [youtube |-> youtubeKey, gemini |-> geminiKey]]
    ELSE [view |-> "setup", keys |-> [youtube |-> NULL, gemini |-> NULL]]

\* the view and keys Index's mount effect leaves for the stored credentials
MountResult(youtubeKey, geminiKey) ==
    IF Truthy(youtubeKey) /\ Truthy(geminiKey)
    THEN [view |-> "search",
          keys |-> [youtube |-> youtubeKey, gemini |-> geminiKey]]
    ELSE [view |-> "setup", keys |-> NoKeys]

\* Index: useEffect(() => {...}, [])
Mount ==
    /\ ~mounted
    /\ mounted' = TRUE
    /\ LET r == MountResult(storage.youtube, storage.gemini)
       IN  /\ currentView' = r.view
           /\ apiKeys' = r.keys
    /\ toast' = "none"
    /\ last' = Record(NoLast)
    /\ UNCHANGED <<notesStore, parse,
                   storage, videos, selectedVideo, videoTranscript,
                   isLoading, form, search, tasks, chat, player>>

\* ApiKeySetup: onChange of the two inputs
TypeYoutubeKey ==
    /\ mounted /\ currentView = "setup"
    /\ \E x \in YoutubeInputs : form' = [form EXCEPT !.youtubeKey = x]
    /\ toast' = "none"
    /\ last' = Record(NoLast)
    /\ UNCHANGED <<notesStore, parse,
                   storage, mounted, currentView, apiKeys, videos,
                   selectedVideo, videoTranscript, isLoading, search, tasks,
                   chat, player>>

TypeGeminiKey ==
    /\ mounted /\ currentView = "setup"
    /\ \E x \in GeminiInputs : form' = [form EXCEPT !.geminiKey = x]
    /\ toast' = "none"
    /\ last' = Record(NoLast)
    /\ UNCHANGED <<notesStore, parse,
                   storage, mounted, currentView, apiKeys, videos,
                   selectedVideo, videoTranscript, isLoading, search, tasks,
                   chat, player>>

\* a validation that forgets to trim
SubmitAccepted_NoTrim(youtubeKey, geminiKey) ==
    ~(youtubeKey = <<>> \/ geminiKey = <<>>)

\* ApiKeySetup.handleSubmit: the form is accepted
SubmitAccepted(youtubeKey, geminiKey) ==
    ~(Trim(youtubeKey) = <<>> \/ Trim(geminiKey) = <<>>)

\* a submit that stores the fields as typed
SubmittedKeys_Untrimmed(youtubeKey, geminiKey) ==
    [youtube |-> youtubeKey, gemini |-> geminiKey]

\* what handleSubmit stores and hands to onKeysSet
SubmittedKeys(youtubeKey, geminiKey) ==
    [youtube |-> Trim(youtubeKey), gemini |-> Trim(geminiKey)]

\* a submit that stores the keys and leaves the keys in memory unset
handleSubmit_ForgetsKeys ==
    /\ mounted /\ currentView = "setup"
    /\ IF SubmitAccepted(form.youtubeKey, form.geminiKey)
       THEN /\ storage' = SubmittedKeys(form.youtubeKey, form.geminiKey)
            /\ currentView' = "search"
            /\ form' = EmptyForm
            /\ toast' = "API Keys Saved"
       ELSE /\ toast' = "Missing API Keys"
            /\ UNCHANGED <<storage, currentView, form>>
    /\ last' = Record(NoLast)
    /\ UNCHANGED <<notesStore, parse, apiKeys,
                   mounted, videos, selectedVideo, videoTranscript,
                   isLoading, search, tasks, chat, player>>

\* ApiKeySetup.handleSubmit with Index.handleKeysSet
handleSubmit ==
    /\ mounted /\ currentView = "setup"
    /\ IF SubmitAccepted(form.youtubeKey, form.geminiKey)
       THEN /\ storage' = SubmittedKeys(form.youtubeKey, form.geminiKey)
            /\ apiKeys' = SubmittedKeys(form.youtubeKey, form.geminiKey)
            /\ currentView' = "search"
            /\ form' = EmptyForm
            /\ toast' = "API Keys Saved"
       ELSE /\ toast' = "Missing API Keys"
            /\ UNCHANGED <<storage, apiKeys, currentView, form>>
    /\ last' = Record(NoLast)
    /\ UNCHANGED <<notesStore, parse,
                   mounted, videos, selectedVideo, videoTranscript,
                   isLoading, search, tasks, chat, player>>

(***************************************************************************)
(* Index.searchVideos                                                      *)
(***************************************************************************)
\* VideoSearch offers the search while no search is running
SearchEnabled == ~isLoading

\* the VideoData built for the items; the summary text of a card is not
\* kept in the model
VideoDataOf(items) == [k \in 1..Len(items) |-> [id |-> items[k]]]

\* searchVideos up to the await of the search request
SearchStart ==
    /\ mounted /\ currentView = "search" /\ SearchEnabled
    /\ search.pc = "idle"
    /\ IF apiKeys = NoKeys
       THEN UNCHANGED <<isLoading, search>>
       ELSE /\ isLoading' = TRUE
            /\ search' = [NoSearch EXCEPT !.pc = "search"]
    /\ toast' = "none"
    /\ last' = Record(NoLast)
    /\ UNCHANGED <<notesStore, parse,
                   storage, mounted, currentView, apiKeys, videos,
                   selectedVideo, videoTranscript, form, tasks, chat, player>>

\* a failed search that empties the list
SearchFails_ClearsList ==
    /\ search.pc = "search"
    /\ \E a \in SearchAnswers :
          /\ search' = NoSearch
          /\ isLoading' = FALSE
          /\ toast' = "Search Error"
    /\ videos' = <<>>
    /\ last' = Record(NoLast)
    /\ UNCHANGED <<notesStore, parse,
                   storage, mounted, currentView, apiKeys,
                   selectedVideo, videoTranscript, form, tasks, chat, player>>

\* the search request fails, or its payload cannot be read
SearchFails ==
    /\ search.pc = "search"
    /\ \E a \in SearchAnswers :
          /\ search' = NoSearch
          /\ isLoading' = FALSE
          /\ toast' = "Search Error"
    /\ last' = Record(NoLast)
    /\ UNCHANGED <<notesStore, parse,
                   storage, mounted, currentView, apiKeys, videos,
                   selectedVideo, videoTranscript, form, tasks, chat, player>>

\* a search that drops the loading flag before the summaries have answered
SearchAnswers2xx_EarlyReset ==
    /\ search.pc = "search"
    /\ \E items \in ResultLists :
          IF items = <<>>
          THEN /\ videos' = <<>>
               /\ search' = NoSearch
          ELSE /\ search' = [pc      |-> "summaries",
                             items   |-> items,
                             pending |-> Len(items)]
               /\ UNCHANGED videos
    /\ isLoading' = FALSE
    /\ toast' = "none"
    /\ last' = Record(NoLast)
    /\ UNCHANGED <<notesStore, parse,
                   storage, mounted, currentView, apiKeys, selectedVideo,
                   videoTranscript, form, tasks, chat, player>>

\* the search request answers with items: one summary request per item
SearchAnswers2xx ==
    /\ search.pc = "search"
    /\ \E items \in ResultLists :
          IF items = <<>>
          THEN /\ videos' = <<>>
               /\ isLoading' = FALSE
               /\ search' = NoSearch
          ELSE /\ search' = [pc      |-> "summaries",
                             items   |-> items,
                             pending |-> Len(items)]
               /\ UNCHANGED <<videos, isLoading>>
    /\ toast' = "none"
    /\ last' = Record(NoLast)
    /\ UNCHANGED <<notesStore, parse,
                   storage, mounted, currentView, apiKeys, selectedVideo,
                   videoTranscript, form, tasks, chat, player>>

\* the record of a search whose last summary request was answered with a
Summarised(a) == [NoLast EXCEPT !.kind = "summary", !.answer = a]

\* a Promise.all that is rejected when a summary request fails
SummaryAnswersOne_RejectsAll ==
    /\ search.pc = "summaries"
    /\ \E a \in SummaryAnswers :
          /\ IF search.pending = 1
             THEN /\ videos' = IF a \in Failures
                               THEN videos
                               ELSE VideoDataOf(search.items)
                  /\ isLoading' = FALSE
                  /\ search' = NoSearch
             ELSE /\ search' = [search EXCEPT !.pending = @ - 1]
                  /\ UNCHANGED <<videos, isLoading>>
          /\ last' = Record(IF search.pending = 1
                            THEN Summarised(a)
                            ELSE NoLast)
    /\ toast' = "none"
    /\ UNCHANGED <<notesStore, parse,
                   storage, mounted, currentView, apiKeys, selectedVideo,
                   videoTranscript, form, tasks, chat, player>>

\* one summary request answers; the last one lets Promise.all resolve
SummaryAnswersOne ==
    /\ search.pc = "summaries"
    /\ \E a \in SummaryAnswers :
          /\ IF search.pending = 1
             THEN /\ videos' = VideoDataOf(search.items)
                  /\ isLoading' = FALSE
                  /\ search' = NoSearch
             ELSE /\ search' = [search EXCEPT !.pending = @ - 1]
                  /\ UNCHANGED <<videos, isLoading>>
          /\ last' = Record(IF search.pending = 1
                            THEN Summarised(a)
                            ELSE NoLast)
    /\ toast' = "none"
    /\ UNCHANGED <<notesStore, parse,
                   storage, mounted, currentView, apiKeys, selectedVideo,
                   videoTranscript, form, tasks, chat, player>>

\* the ids of the cards the search screen shows
ShownVideos == {videos[k].id : k \in 1..Len(videos)}

(***************************************************************************)
(* Index: play, chat, back                                                 *)
(***************************************************************************)
\* a play handler without the reset of the transcript
handlePlayVideo_NoReset ==
    /\ mounted /\ currentView = "search"
    /\ \E video \in ShownVideos :
          /\ selectedVideo' = video
          /\ player' = PlayerMount(video)
    /\ currentView' = "player"
    /\ toast' = "none"
    /\ last' = Record(NoLast)
    /\ UNCHANGED <<notesStore, parse,
                   storage, mounted, apiKeys, videos, videoTranscript,
                   isLoading, form, search, tasks, chat>>

\* Index.handlePlayVideo
handlePlayVideo ==
    /\ mounted /\ currentView = "search"
    /\ \E video \in ShownVideos :
          /\ selectedVideo' = video
          /\ player' = PlayerMount(video)
    /\ videoTranscript' = <<>>
    /\ currentView' = "player"
    /\ toast' = "none"
    /\ last' = Record(NoLast)
    /\ UNCHANGED <<notesStore, parse,
                   storage, mounted, apiKeys, videos, isLoading, form,
                   search, tasks, chat>>

\* handleChatWithVideo attempts the caption listing
AutoAttempts == Truthy(apiKeys.youtube)

\* Index.handleChatWithVideo up to the await of the caption listing
handleChatWithVideo ==
    /\ mounted /\ currentView = "search"
    /\ AutoAttempts => HasFreeSlot
    /\ \E video \in ShownVideos :
          /\ selectedVideo' = video
          /\ IF AutoAttempts
             THEN /\ tasks' = Started(NewTask("auto", video, "list", 1))
                  /\ last' = Record(NoLast)
             ELSE /\ tasks' = tasks
                  /\ last' = Record(Returned(
                                [IdleTask EXCEPT !.kind = "auto",
                                                 !.video = video],
                                <<>>))
    /\ currentView' = "chat"
    /\ chat' = ChatSyncEffect(ChatInit(videoTranscript), videoTranscript)
    /\ toast' = "none"
    /\ UNCHANGED <<notesStore, parse,
                   storage, mounted, apiKeys, videos, videoTranscript,
                   isLoading, form, search, player>>

\* the tasks once their component is unmounted
OrphanedTask(t) ==
    IF t.kind # "auto" THEN [t EXCEPT !.orphan = TRUE] ELSE t

RECURSIVE BagOf(_)
BagOf(ts) ==
    IF ts = <<>> THEN EmptyBag ELSE SetToBag({Head(ts)}) (+) BagOf(Tail(ts))

RECURSIVE BagSeq(_)
BagSeq(b) ==
    IF b = EmptyBag THEN <<>>
    ELSE LET t == CHOOSE x \in BagToSet(b) : TRUE
         IN  <<t>> \o BagSeq(b (-) SetToBag({t}))

Orphaned(b) ==
    LET ts == BagSeq(b)
    IN  BagOf([k \in 1..Len(ts) |-> OrphanedTask(ts[k])])

\* a back handler that leaves the video selected
handleBackToSearch_KeepsVideo ==
    /\ mounted /\ currentView \in {"player", "chat"}
    /\ currentView' = "search"
    /\ videoTranscript' = <<>>
    /\ chat' = ChatOff
    /\ player' = PlayerInit
    /\ tasks' = Orphaned(tasks)
    /\ toast' = "none"
    /\ last' = Record(NoLast)
    /\ UNCHANGED <<notesStore, parse, selectedVideo,
                   storage, mounted, apiKeys, videos, isLoading, form,
                   search>>

\* Index.handleBackToSearch
handleBackToSearch ==
    /\ mounted /\ currentView \in {"player", "chat"}
    /\ currentView' = "search"
    /\ selectedVideo' = NoVideo
    /\ videoTranscript' = <<>>
    /\ chat' = ChatOff
    /\ player' = PlayerInit
    /\ tasks' = Orphaned(tasks)
    /\ toast' = "none"
    /\ last' = Record(NoLast)
    /\ UNCHANGED <<notesStore, parse,
                   storage, mounted, apiKeys, videos, isLoading, form,
                   search>>

\* the screen Index renders
Screen ==
    IF currentView = "setup" THEN "setup"
    ELSE IF currentView = "player" /\ selectedVideo # NoVideo THEN "player"
    ELSE IF currentView = "chat" /\ selectedVideo # NoVideo THEN "chat"
    ELSE "search"

(***************************************************************************)
(* Transcript acquisition.  A task waits for one request at a time; the    *)
(* answer is chosen when it arrives.                                       *)
(***************************************************************************)
\* setVideoTranscript(data), and VideoChat's effect on its transcript prop
\* when a VideoChat is mounted
SetVideoTranscript(data) ==
    /\ videoTranscript' = data
    /\ chat' = IF ChatMounted THEN ChatSyncEffect(chat, data) ELSE chat

\* task t leaves its handler
Return(t, rec) ==
    /\ tasks' = tasks (-) SetToBag({t})
    /\ last' = Record(rec)

\* task t sends the next request
Await(t, pc, method, failed) ==
    /\ tasks' = (tasks (-) SetToBag({t}))
                    (+) SetToBag({[t EXCEPT !.pc = pc,
                                            !.issued = Append(@, method),
                                            !.failed = @ \cup failed]})
    /\ last' = Record(NoLast)

---------------------------------------------------------------------------
(* Index.handleChatWithVideo.  An exception raised while the request at pc   *)
(* is awaited, or while its answer is read, goes to the catch that encloses  *)
(* it: the outer one runs the timed-text fallback, the inner one swallows.   *)
AutoCatch(pc) ==
    CASE pc \in {"list", "content"} -> "timedtext"
      [] pc = "timedtext"           -> "swallow"
      [] OTHER                      -> "escape"

\* where the handler goes on an answer to the caption listing
AutoAfterList(a) ==
    CASE a = "items"                  -> "content"
      [] a \in {"throw", "malformed"} -> AutoCatch("list")
      [] OTHER                        -> "return"

\* ... on a failure of the caption content request
AutoAfterContent(a) ==
    IF a = "throw" THEN AutoCatch("content") ELSE "return"

\* ... on a failure of the timed-text request
AutoAfterTimedtext(a) ==
    IF a = "throw" THEN AutoCatch("timedtext") ELSE "return"

\* task t goes on after answer a, which stored nothing; method has failed
\* unless the next request belongs to it
AutoGo(t, next, method, a) ==
    CASE next = "content"   -> Await(t, "content", 1, {})
      [] next = "timedtext" -> Await(t, "timedtext", 2, {method})
      [] OTHER ->
           Return(t, Returned(t, [failed |-> t.failed \cup {method},
                                  threw  |-> next = "escape",
                                  answer |-> a]))

\* the success path: setVideoTranscript, and the handler ends
AutoLoaded(t, method, transcriptData) ==
    /\ SetVideoTranscript(transcriptData)
    /\ Return(t, Returned(t, [succeeded |-> method, wrote |-> TRUE,
                              data |-> transcriptData, answer |-> "ok"]))

AutoListAnswers(t) ==
    /\ t.kind = "auto" /\ t.pc = "list"
    /\ \E a \in ListAnswers : AutoGo(t, AutoAfterList(a), 1, a)
    /\ toast' = "none"
    /\ UNCHANGED <<notesStore, parse,
                   storage, mounted, currentView, apiKeys, videos,
                   selectedVideo, videoTranscript, isLoading, form, search,
                   chat, player>>

AutoContentFails(t) ==
    /\ t.kind = "auto" /\ t.pc = "content"
    /\ \E a \in Failures : AutoGo(t, AutoAfterContent(a), 1, a)
    /\ toast' = "none"
    /\ UNCHANGED <<notesStore, parse,
                   storage, mounted, currentView, apiKeys, videos,
                   selectedVideo, videoTranscript, isLoading, form, search,
                   chat, player>>

AutoContentAnswers(t) ==
    /\ t.kind = "auto" /\ t.pc = "content"
    /\ \E p \in ContentPayloads(t.video) :
          AutoLoaded(t, 1, parseTranscriptText(p))
    /\ toast' = "none"
    /\ UNCHANGED <<notesStore, parse,
                   storage, mounted, currentView, apiKeys, videos,
                   selectedVideo, isLoading, form, search, player>>

AutoTimedtextFails(t) ==
    /\ t.kind = "auto" /\ t.pc = "timedtext"
    /\ \E a \in Failures : AutoGo(t, AutoAfterTimedtext(a), 2, a)
    /\ toast' = "none"
    /\ UNCHANGED <<notesStore, parse,
                   storage, mounted, currentView, apiKeys, videos,
                   selectedVideo, videoTranscript, isLoading, form, search,
                   chat, player>>

AutoTimedtextAnswers(t) ==
    /\ t.kind = "auto" /\ t.pc = "timedtext"
    /\ \E p \in TimedtextPayloads(t.video) :
          AutoLoaded(t, 2, parseTranscriptXML(p))
    /\ toast' = "none"
    /\ UNCHANGED <<notesStore, parse,
                   storage, mounted, currentView, apiKeys, videos,
                   selectedVideo, isLoading, form, search, player>>

---------------------------------------------------------------------------
(* VideoChat.loadTranscript.  The inner catch (method 1) goes on to method   *)
(* 2; the outer catch reports the error; finally resets the flag.            *)
ChatCatch_NoOuterCatch(pc) ==
    IF pc \in {"list", "content"} THEN "timedtext" ELSE "escape"

ChatCatch(pc) ==
    CASE pc \in {"list", "content"} -> "timedtext"
      [] pc = "timedtext"           -> "report"
      [] OTHER                      -> "escape"

\* where the handler goes on an answer to the caption listing
ChatAfterList(a) ==
    CASE a = "items"                  -> "content"
      [] a \in {"throw", "malformed"} -> ChatCatch("list")
      [] OTHER                        -> "timedtext"

\* ... on a failure of the caption content request
ChatAfterContent(a) ==
    IF a = "throw" THEN ChatCatch("content") ELSE "timedtext"

\* ... on a failure of the timed-text request: non-2xx throws
\* "No transcript available" inside the outer try
ChatAfterTimedtext(a) == ChatCatch("timedtext")

\* method 1 without its return statement
ChatAfterLoaded_NoReturn(method) ==
    IF method = 1 THEN "timedtext" ELSE "return"

\* ... after a method has stored its transcript: method 1 returns, method 2
\* is the end of the try block
ChatAfterLoaded(method) == "return"

\* setState of an unmounted component does nothing
ChatSet(t, c) == IF t.orphan THEN chat ELSE c

\* loadTranscript up to its first await
loadTranscript ==
    /\ ChatMounted
    /\ chat.currentTranscript = <<>>
    /\ ~chat.isLoadingTranscript
    /\ HasFreeSlot
    /\ chat' = [chat EXCEPT !.isLoadingTranscript = TRUE]
    /\ tasks' = Started(IF Truthy(storage.youtube)
                        THEN NewTask("chat", selectedVideo, "list", 1)
                        ELSE NewTask("chat", selectedVideo, "timedtext", 2))
    /\ toast' = "none"
    /\ last' = Record(NoLast)
    /\ UNCHANGED <<notesStore, parse,
                   storage, mounted, currentView, apiKeys, videos,
                   selectedVideo, videoTranscript, isLoading, form, search,
                   player>>

\* task t goes on after answer a, which stored nothing; method has failed
\* unless the next request belongs to it
ChatGo(t, next, method, a) ==
    CASE next = "content" ->
           /\ Await(t, "content", 1, {})
           /\ UNCHANGED <<chat, toast>>
      [] next = "timedtext" ->
           /\ Await(t, "timedtext", 2, {method})
           /\ UNCHANGED <<chat, toast>>
      [] OTHER ->
           /\ toast' = IF next = "report" THEN "Transcript Error" ELSE "none"
           /\ chat' = ChatSet(t, [chat EXCEPT !.isLoadingTranscript = FALSE])
           /\ Return(t, Returned(t, [failed |-> t.failed \cup {method},
                                     threw  |-> next = "escape",
                                     answer |-> a]))

\* the success path of loadTranscript: store, rewrite the welcome message,
\* notify; then the handler ends (finally resets the flag) or goes on
ChatLoaded(t, method, transcriptData) ==
    /\ toast' = "Transcript Loaded"
    /\ IF ChatAfterLoaded(method) = "return"
       THEN /\ chat' = ChatSet(t,
                        [chat EXCEPT !.currentTranscript = transcriptData,
                                     !.welcome = "now",
                                     !.isLoadingTranscript = FALSE])
            /\ Return(t, Returned(t, [succeeded |-> method, wrote |-> TRUE,
                                      data |-> transcriptData,
                                      reported |-> TRUE, answer |-> "ok"]))
       ELSE /\ chat' = ChatSet(t,
                        [chat EXCEPT !.currentTranscript = transcriptData,
                                     !.welcome = "now"])
            /\ Await(t, "timedtext", 2, {})

ChatListAnswers(t) ==
    /\ t.kind = "chat" /\ t.pc = "list"
    /\ \E a \in ListAnswers : ChatGo(t, ChatAfterList(a), 1, a)
    /\ UNCHANGED <<notesStore, parse,
                   storage, mounted, currentView, apiKeys, videos,
                   selectedVideo, videoTranscript, isLoading, form, search,
                   player>>

ChatContentFails(t) ==
    /\ t.kind = "chat" /\ t.pc = "content"
    /\ \E a \in Failures : ChatGo(t, ChatAfterContent(a), 1, a)
    /\ UNCHANGED <<notesStore, parse,
                   storage, mounted, currentView, apiKeys, videos,
                   selectedVideo, videoTranscript, isLoading, form, search,
                   player>>

ChatContentAnswers(t) ==
    /\ t.kind = "chat" /\ t.pc = "content"
    /\ \E p \in ContentPayloads(t.video) :
          ChatLoaded(t, 1, parseTranscriptText(p))
    /\ UNCHANGED <<notesStore, parse,
                   storage, mounted, currentView, apiKeys, videos,
                   selectedVideo, videoTranscript, isLoading, form, search,
                   player>>

ChatTimedtextFails(t) ==
    /\ t.kind = "chat" /\ t.pc = "timedtext"
    /\ \E a \in Failures : ChatGo(t, ChatAfterTimedtext(a), 2, a)
    /\ UNCHANGED <<notesStore, parse,
                   storage, mounted, currentView, apiKeys, videos,
                   selectedVideo, videoTranscript, isLoading, form, search,
                   player>>

ChatTimedtextAnswers(t) ==
    /\ t.kind = "chat" /\ t.pc = "timedtext"
    /\ \E p \in TimedtextPayloads(t.video) :
          ChatLoaded(t, 2, parseTranscriptXML(p))
    /\ UNCHANGED <<notesStore, parse,
                   storage, mounted, currentView, apiKeys, videos,
                   selectedVideo, videoTranscript, isLoading, form, search,
                   player>>

---------------------------------------------------------------------------
(* VideoPlayer.fetchTranscript.  One try around everything: the catch      *)
(* reports the error; finally resets the flag.                             *)
PlayerCatch(pc) ==
    IF pc = "timedtext" THEN "report" ELSE "escape"

\* where the handler goes on a failure of the timed-text request: non-2xx
\* runs the player-embed extraction, inside the same try
PlayerAfterTimedtext(a) ==
    IF a = "throw" THEN PlayerCatch("timedtext") ELSE "extract"

\* VideoPlayer.extractTranscriptFromPlayer
extractTranscriptFromPlayer == <<>>

\* setState of an unmounted component does nothing
PlayerSet(t, c) == IF t.orphan THEN player ELSE c

\* fetchTranscript up to its await
fetchTranscript ==
    /\ PlayerMounted
    /\ ~player.isLoadingTranscript
    /\ HasFreeSlot
    /\ player' = [player EXCEPT !.isLoadingTranscript = TRUE]
    /\ tasks' = Started(NewTask("player", selectedVideo, "timedtext", 2))
    /\ toast' = "none"
    /\ last' = Record(NoLast)
    /\ UNCHANGED <<notesStore, parse,
                   storage, mounted, currentView, apiKeys, videos,
                   selectedVideo, videoTranscript, isLoading, form, search,
                   chat>>

\* a success path of fetchTranscript: store, show, tell Index
\* (handleTranscriptUpdate), notify, and reset the flag in finally
PlayerLoaded(t, r) ==
    /\ player' = PlayerSet(t, [player EXCEPT !.transcript = r.data,
                                             !.showTranscript = TRUE,
                                             !.isLoadingTranscript = FALSE])
    /\ SetVideoTranscript(r.data)
    /\ toast' = "Transcript Loaded"
    /\ Return(t, Returned(t, r @@ [wrote |-> TRUE, reported |-> TRUE]))

\* the error path: "No transcript available" or the exception of the
\* request goes to the catch
PlayerFailed(t, next, r) ==
    /\ toast' = IF next = "report" THEN "Transcript Error" ELSE "none"
    /\ player' = PlayerSet(t, [player EXCEPT !.isLoadingTranscript = FALSE])
    /\ Return(t, Returned(t, r @@ [threw |-> next = "escape"]))
    /\ UNCHANGED <<videoTranscript, chat>>

PlayerTimedtextAnswers(t) ==
    /\ t.kind = "player" /\ t.pc = "timedtext"
    /\ \E p \in TimedtextPayloads(t.video) :
          PlayerLoaded(t, [succeeded |-> 2, data |-> parseTranscriptXML(p),
                           answer |-> "ok"])
    /\ UNCHANGED <<notesStore, parse,
                   storage, mounted, currentView, apiKeys, videos,
                   selectedVideo, isLoading, form, search>>

PlayerTimedtextFails(t) ==
    /\ t.kind = "player" /\ t.pc = "timedtext"
    /\ \E a \in Failures :
          LET next == PlayerAfterTimedtext(a)
              fallbackTranscript == extractTranscriptFromPlayer
          IN  IF next = "extract"
              THEN IF Len(fallbackTranscript) > 0
                   THEN PlayerLoaded(t, [succeeded |-> 3,
                                         data |-> fallbackTranscript,
                                         failed |-> {2}, tried3 |-> TRUE,
                                         answer |-> a])
                   ELSE PlayerFailed(t, PlayerCatch("timedtext"),
                                     [failed |-> {2, 3}, tried3 |-> TRUE,
                                      answer |-> a])
              ELSE PlayerFailed(t, next, [failed |-> {2}, answer |-> a])
    /\ UNCHANGED <<notesStore, parse,
                   storage, mounted, currentView, apiKeys, videos,
                   selectedVideo, isLoading, form, search>>

(***************************************************************************)
(* VideoChat.sendMessage and VideoChat.testApiKey.  Both use the flag      *)
(* isLoading of the chat.  The list of messages is not part of the state.  *)
(***************************************************************************)
\* what the user may have typed when sendMessage runs
ChatInputs == {<<>>, <<" ">>, <<" ", "q">>}

\* the status codes tried for a non-2xx answer
Statuses == {"400", "401", "403", "404", "429", "500", "503"}

\* what the generateContent endpoint may do with a request: a 2xx answer, a
\* rejected fetch, a non-2xx answer
GenerateAnswers == {"ok", "throw"} \cup Statuses

\* the message of the error a rejected fetch throws, which depends on the
\* browser
FetchErrors == { <<"Failed", "to", "fetch">>, <<"Load", "failed">> }

\* the stored key makes the handler send its request
GeminiKeyUsable == Truthy(storage.gemini) /\ Trim(storage.gemini) # <<>>

\* message.includes(phrase), on messages and phrases as sequences of words
Includes(message, phrase) ==
    \E i \in 1..(Len(message) - Len(phrase) + 1) :
        SubSeq(message, i, i + Len(phrase) - 1) = phrase

\* the error the key tests of sendMessage and testApiKey throw
KeyError ==
    IF ~Truthy(storage.gemini)
    THEN <<"Gemini", "API", "key", "not", "found", "in", "localStorage.",
           "Please", "go", "back", "to", "setup", "and", "enter", "your",
           "API", "key.">>
    ELSE <<"Gemini", "API", "key", "is", "empty.", "Please", "go", "back",
           "to", "setup", "and", "enter", "a", "valid", "API", "key.">>

\* a table where 403 has the message of 401
StatusMessage_403As401(status) ==
    CASE status = "400" ->
            <<"Invalid", "request", "to", "Gemini", "API.", "Please",
              "check", "your", "API", "key", "format.">>
      [] status \in {"401", "403"} ->
            <<"Unauthorized.", "Your", "Gemini", "API", "key", "is",
              "invalid", "or", "expired.">>
      [] status = "429" ->
            <<"Rate", "limit", "exceeded.", "Please", "wait", "a", "moment",
              "and", "try", "again.">>
      [] status = "500" ->
            <<"Gemini", "API", "server", "error.", "Please", "try", "again",
              "later.">>
      [] OTHER -> <<"Failed", "to", "get", "AI", "response">>

\* errorMessage of sendMessage for a non-2xx status
StatusMessage(status) ==
    CASE status = "400" ->
            <<"Invalid", "request", "to", "Gemini", "API.", "Please",
              "check", "your", "API", "key", "format.">>
      [] status = "401" ->
            <<"Unauthorized.", "Your", "Gemini", "API", "key", "is",
              "invalid", "or", "expired.">>
      [] status = "403" ->
            <<"Access", "denied.", "Your", "Gemini", "API", "key", "may",
              "not", "have", "the", "required", "permissions.">>
      [] status = "429" ->
            <<"Rate", "limit", "exceeded.", "Please", "wait", "a", "moment",
              "and", "try", "again.">>
      [] status = "500" ->
            <<"Gemini", "API", "server", "error.", "Please", "try", "again",
              "later.">>
      [] OTHER -> <<"Failed", "to", "get", "AI", "response">>

\* the message of the error thrown for a non-2xx status
StatusError(status) == StatusMessage(status) \o <<"(Status:", status, ")">>

\* the description of the "Chat Error" notification for a caught error
ChatErrorDescription(message) ==
    IF Includes(message, <<"API", "key">>) THEN message
    ELSE IF Includes(message, <<"fetch">>)
    THEN <<"Network", "error.", "Please", "check", "your", "internet",
           "connection.">>
    ELSE message

\* the record of a sendMessage that ended after answer a
Sent(a, description) ==
    [NoLast EXCEPT !.kind = "send", !.answer = a,
                   !.description = description]

\* the messages after the welcome message; they are kept when the history
\* is kept
UserMessage(content) == [sender |-> "user", content |-> content]
AiMessage == [sender |-> "ai", content |-> <<"a">>]

\* setMessages(prev => [...prev, message])
Appended(messages, message) ==
    IF last = Off THEN messages ELSE Append(messages, message)

\* the questions the chat has accepted
UserTurns(messages) ==
    Cardinality({k \in 1..Len(messages) : messages[k].sender = "user"})

\* the title and the description of the snippet of video v
TitleOf(v) == <<"t", v>>
DescriptionOf(v) == <<"d", v>>

\* transcript.map(entry => entry.text).join(" ")
RECURSIVE JoinTexts(_)
JoinTexts(transcript) ==
    IF transcript = <<>> THEN <<>>
    ELSE IF Len(transcript) = 1 THEN transcript[1].text
    ELSE transcript[1].text \o <<" ">> \o JoinTexts(Tail(transcript))

\* a labelled part of the prompt
Section(label, text) == [label |-> label, text |-> text]

\* context of sendMessage
BuildContext(video, transcript) ==
    <<Section("YouTube Video", TitleOf(video)),
      Section("Description", DescriptionOf(video))>>
       \o (IF Len(transcript) > 0
           THEN <<Section("Video Transcript", JoinTexts(transcript))>>
           ELSE <<>>)

\* a prompt that also carries the messages of the chat
BuildPrompt_WithHistory(video, transcript, question) ==
    BuildContext(video, transcript)
       \o [k \in 1..Len(chat.messages) |->
              Section("History", chat.messages[k].content)]
       \o <<Section("User Question", question)>>

\* prompt of sendMessage: the parts that vary
BuildPrompt(video, transcript, question) ==
    BuildContext(video, transcript) \o <<Section("User Question", question)>>

\* a request to the generateContent endpoint awaited by handler kind
GenerateTask(kind, body) ==
    [IdleTask EXCEPT !.kind = kind, !.video = selectedVideo,
                     !.pc = "generate", !.body = body]

\* a handler that accepts a question while a request is in progress
sendMessage_IgnoresLoading ==
    /\ ChatMounted
    /\ \E input \in ChatInputs :
          IF Trim(input) = <<>>
          THEN /\ toast' = "none"
               /\ last' = Record(NoLast)
               /\ UNCHANGED <<chat, tasks>>
          ELSE /\ UserTurns(chat.messages) < MaxSends
               /\ IF GeminiKeyUsable
                  THEN /\ HasFreeSlot
                       /\ chat' = [chat EXCEPT
                                     !.isLoading = TRUE,
                                     !.messages =
                                         Appended(@, UserMessage(Trim(input)))]
                       /\ tasks' = Started(GenerateTask("send",
                                      BuildPrompt(selectedVideo,
                                                  chat.currentTranscript,
                                                  Trim(input))))
                       /\ toast' = "none"
                       /\ last' = Record(NoLast)
                  ELSE /\ toast' = "Chat Error"
                       /\ chat' = [chat EXCEPT
                                     !.isLoading = FALSE,
                                     !.messages =
                                         Appended(@, UserMessage(Trim(input)))]
                       /\ last' = Record(Sent("nokey",
                                      ChatErrorDescription(KeyError)))
                       /\ UNCHANGED tasks
    /\ UNCHANGED <<notesStore, parse,
                   storage, mounted, currentView, apiKeys, videos,
                   selectedVideo, videoTranscript, isLoading, form, search,
                   player>>

\* sendMessage up to the await of the request
sendMessage ==
    /\ ChatMounted
    /\ \E input \in ChatInputs :
          IF Trim(input) = <<>> \/ chat.isLoading
          THEN /\ toast' = "none"
               /\ last' = Record(NoLast)
               /\ UNCHANGED <<chat, tasks>>
          ELSE /\ UserTurns(chat.messages) < MaxSends
               /\ IF GeminiKeyUsable
                  THEN /\ HasFreeSlot
                       /\ chat' = [chat EXCEPT
                                     !.isLoading = TRUE,
                                     !.messages =
                                         Appended(@, UserMessage(Trim(input)))]
                       /\ tasks' = Started(GenerateTask("send",
                                      BuildPrompt(selectedVideo,
                                                  chat.currentTranscript,
                                                  Trim(input))))
                       /\ toast' = "none"
                       /\ last' = Record(NoLast)
                  ELSE /\ toast' = "Chat Error"
                       /\ chat' = [chat EXCEPT
                                     !.isLoading = FALSE,
                                     !.messages =
                                         Appended(@, UserMessage(Trim(input)))]
                       /\ last' = Record(Sent("nokey",
                                      ChatErrorDescription(KeyError)))
                       /\ UNCHANGED tasks
    /\ UNCHANGED <<notesStore, parse,
                   storage, mounted, currentView, apiKeys, videos,
                   selectedVideo, videoTranscript, isLoading, form, search,
                   player>>

\* what an answer does to the chat, the notification and the record
SendOutcome(t, a, e) ==
    /\ toast' = IF a = "ok" THEN "none" ELSE "Chat Error"
    /\ chat' = ChatSet(t, [chat EXCEPT
                             !.isLoading = FALSE,
                             !.messages = IF a = "ok"
                                          THEN Appended(@, AiMessage)
                                          ELSE @])
    /\ last' = Record(Sent(a, IF a = "ok" THEN <<>>
                              ELSE IF a = "throw"
                              THEN ChatErrorDescription(e)
                              ELSE ChatErrorDescription(StatusError(a))))

\* a failed send that also removes the key it was refused with
SendAnswers_ForgetsKey(t) ==
    /\ t.kind = "send" /\ t.pc = "generate"
    /\ \E a \in GenerateAnswers :
          /\ \E e \in IF a = "throw" THEN FetchErrors ELSE {<<>>} :
                SendOutcome(t, a, e)
          /\ storage' = IF a \in Statuses
                        THEN [storage EXCEPT !.gemini = NULL]
                        ELSE storage
    /\ tasks' = tasks (-) SetToBag({t})
    /\ UNCHANGED <<notesStore, parse, mounted, currentView, apiKeys, videos,
                   selectedVideo, videoTranscript, isLoading, form, search,
                   player>>

\* the request of sendMessage answers: the reply is appended, or the catch
\* block raises "Chat Error"; finally resets the flag
SendAnswers(t) ==
    /\ t.kind = "send" /\ t.pc = "generate"
    /\ \E a \in GenerateAnswers :
          \E e \in IF a = "throw" THEN FetchErrors ELSE {<<>>} :
              SendOutcome(t, a, e)
    /\ tasks' = tasks (-) SetToBag({t})
    /\ UNCHANGED <<notesStore, parse,
                   storage, mounted, currentView, apiKeys, videos,
                   selectedVideo, videoTranscript, isLoading, form, search,
                   player>>

\* testApiKey up to the await of the request; the button is shown when a
\* key is stored and disabled while isLoading
testApiKey ==
    /\ ChatMounted
    /\ Truthy(storage.gemini)
    /\ ~chat.isLoading
    /\ IF GeminiKeyUsable
       THEN /\ HasFreeSlot
            /\ chat' = [chat EXCEPT !.isLoading = TRUE]
            /\ tasks' = Started(GenerateTask("test", <<>>))
            /\ toast' = "none"
       ELSE /\ toast' = "API Key Test Failed"
            /\ chat' = [chat EXCEPT !.isLoading = FALSE]
            /\ UNCHANGED tasks
    /\ last' = Record(NoLast)
    /\ UNCHANGED <<notesStore, parse,
                   storage, mounted, currentView, apiKeys, videos,
                   selectedVideo, videoTranscript, isLoading, form, search,
                   player>>

\* a key test without the finally block
TestAnswers_KeepsLoading(t) ==
    /\ t.kind = "test" /\ t.pc = "generate"
    /\ \E a \in GenerateAnswers :
          toast' = IF a = "ok" THEN "API Key Test Successful"
                               ELSE "API Key Test Failed"
    /\ tasks' = tasks (-) SetToBag({t})
    /\ last' = Record(NoLast)
    /\ UNCHANGED <<notesStore, parse,
                   storage, mounted, currentView, apiKeys, videos,
                   selectedVideo, videoTranscript, isLoading, form, search,
                   player, chat>>

\* the request of testApiKey answers; finally resets the flag
TestAnswers(t) ==
    /\ t.kind = "test" /\ t.pc = "generate"
    /\ \E a \in GenerateAnswers :
          toast' = IF a = "ok" THEN "API Key Test Successful"
                               ELSE "API Key Test Failed"
    /\ chat' = ChatSet(t, [chat EXCEPT !.isLoading = FALSE])
    /\ tasks' = tasks (-) SetToBag({t})
    /\ last' = Record(NoLast)
    /\ UNCHANGED <<notesStore, parse,
                   storage, mounted, currentView, apiKeys, videos,
                   selectedVideo, videoTranscript, isLoading, form, search,
                   player>>

(***************************************************************************)
(* VideoPlayer: the notes                                                  *)
(***************************************************************************)
\* what the user may type into the notes
NotesInputs == {<<>>, <<" ">>, <<"n">>}

\* onChange of the notes: setNotes; the effect on [notes, video.id] clears
\* the timer and sets it again
TypeNotes ==
    /\ PlayerMounted
    /\ \E x \in NotesInputs :
          player' = [player EXCEPT !.notes = x, !.timer = TRUE]
    /\ toast' = "none"
    /\ last' = Record(NoLast)
    /\ UNCHANGED <<notesStore, parse,
                   storage, mounted, currentView, apiKeys, videos,
                   selectedVideo, videoTranscript, isLoading, form, search,
                   tasks, chat>>

\* the auto-save timer fires: notes that are not blank are stored under
\* video_notes_<id>
AutoSave ==
    /\ PlayerMounted
    /\ player.timer
    /\ player' = [player EXCEPT !.timer = FALSE]
    /\ notesStore' = IF Trim(player.notes) # <<>>
                     THEN [notesStore EXCEPT ![selectedVideo] = player.notes]
                     ELSE notesStore
    /\ toast' = "none"
    /\ last' = Record(NoLast)
    /\ UNCHANGED <<parse, storage, mounted, currentView, apiKeys, videos,
                   selectedVideo, videoTranscript, isLoading, form, search,
                   tasks, chat>>

\* VideoPlayer.formatTime
formatTime(seconds) ==
    LET minutes == FloorOfQuotient(seconds, 60)
        remainingSeconds == FloorOfRemainder(seconds, 60)
    IN  NumberString(minutes) \o <<":">> \o PadStart2(NumberString(remainingSeconds))

\* the rows of the transcript panel: the time column and the text column
TranscriptRows(transcript) ==
    [k \in 1..Len(transcript) |->
        [time |-> formatTime(transcript[k].offset),
         text |-> transcript[k].text]]

\* a line of the export whose seconds are not padded
NoteLine_Unpadded(entry) ==
    LET minutes == FloorOfQuotient(entry.offset, 60)
        seconds == FloorOfRemainder(entry.offset, 60)
        timestamp == NumberString(minutes) \o <<":">> \o NumberString(seconds)
    IN  <<"[">> \o timestamp \o <<"]", " ">> \o entry.text

\* the line createNoteContent writes for one entry, without its "\n"
NoteLine(entry) ==
    LET minutes == FloorOfQuotient(entry.offset, 60)
        seconds == FloorOfRemainder(entry.offset, 60)
        timestamp == NumberString(minutes) \o <<":">>
                        \o PadStart2(NumberString(seconds))
    IN  <<"[">> \o timestamp \o <<"]", " ">> \o entry.text

\* createNoteContent: the lines under VIDEO TRANSCRIPT:
createNoteContent(transcript) ==
    [k \in 1..Len(transcript) |-> NoteLine(transcript[k])]

\* handleSaveNotes: the download; the button is disabled without content
handleSaveNotes ==
    /\ PlayerMounted
    /\ Trim(player.notes) # <<>> \/ Len(player.transcript) > 0
    /\ toast' = "Notes Saved"
    /\ last' = Record(NoLast)
    /\ UNCHANGED <<notesStore, parse,
                   storage, mounted, currentView, apiKeys, videos,
                   selectedVideo, videoTranscript, isLoading, form, search,
                   tasks, chat, player>>

(***************************************************************************)
(* The parsers on their own: a parser is applied to a payload.             *)
(***************************************************************************)
\* the start and dur attributes tried: absent, empty, a whole number, a
\* decimal fraction, not a number, a negative number
StartAttrs ==
    {NULL, <<>>, <<"5">>, <<"1", ".", "5">>, <<"x">>, <<"-", "5">>}

DurAttrs == {NULL, <<"2">>}

\* the <text> elements tried
TextElements ==
    [start : StartAttrs, dur : DurAttrs, content : {<<>>, <<"A">>}]

\* the sequences over set S of length 0..n
RECURSIVE SeqsUpTo(_, _)
SeqsUpTo(S, n) ==
    IF n = 0 THEN {<<>>}
    ELSE LET shorter == SeqsUpTo(S, n - 1)
         IN  shorter \cup {Append(q, x) : q \in shorter, x \in S}

\* the valid transcript-XML payloads tried
XmlInputs ==
    {[root |-> TRUE, texts |-> es, lines |-> <<>>] :
        es \in SeqsUpTo(TextElements, MaxElements)}

\* the lines tried: empty; no timestamp; a leading timestamp with text; a
\* round one with two minute digits; a timestamp and nothing else; a
\* timestamp after blanks; a timestamp in the middle of the line; one digit
\* of seconds; brackets that do not pair
TextLines ==
    { <<>>,
      <<"h", "i">>,
      <<"[", "0", ":", "0", "5", "]", " ", "h", "i">>,
      <<"(", "1", "2", ":", "3", "4", ")", "x">>,
      <<"[", "0", ":", "0", "5", "]", " ">>,
      <<" ", "[", "0", ":", "0", "7", "]", "c">>,
      <<"a", " ", "[", "1", ":", "0", "2", "]", " ", "b">>,
      <<"[", "0", ":", "5", "]", " ", "x">>,
      <<"[", "0", ":", "0", "9", ")", "m">> }

\* the plain-text payloads tried
TextInputs ==
    {[root |-> FALSE, texts |-> <<>>, lines |-> ls] :
        ls \in SeqsUpTo(TextLines, MaxLines)}

\* parseTranscriptXML(xmlText)
ParseXml ==
    /\ parse = NoParse
    /\ \E payload \in XmlInputs :
          parse' = [NoParse EXCEPT
                       !.parser = "xml",
                       !.payload = payload,
                       !.entries = parseTranscriptXML(payload)]
    /\ UNCHANGED <<storage, mounted, currentView, apiKeys, videos,
                   selectedVideo, videoTranscript, isLoading, form, search,
                   tasks, chat, player, toast, last, notesStore>>

\* parseTranscriptText(text)
ParseText ==
    /\ parse = NoParse
    /\ \E payload \in TextInputs \cup XmlInputs :
          parse' = [NoParse EXCEPT
                       !.parser = "text",
                       !.payload = payload,
                       !.entries = parseTranscriptText(payload)]
    /\ UNCHANGED <<storage, mounted, currentView, apiKeys, videos,
                   selectedVideo, videoTranscript, isLoading, form, search,
                   tasks, chat, player, toast, last, notesStore>>

\* the notes export applied to the parsed transcript
SaveParsed ==
    /\ parse.parser # "none"
    /\ ~parse.saved
    /\ parse' = [parse EXCEPT !.saved = TRUE,
                              !.content = createNoteContent(parse.entries)]
    /\ UNCHANGED <<storage, mounted, currentView, apiKeys, videos,
                   selectedVideo, videoTranscript, isLoading, form, search,
                   tasks, chat, player, toast, last, notesStore>>

ParseNext == ParseXml \/ ParseText \/ SaveParsed

ParseSpec == Init /\ [][ParseNext]_vars

(***************************************************************************)
(* The specification                                                       *)
(***************************************************************************)
Next ==
    \/ Mount
    \/ TypeYoutubeKey
    \/ TypeGeminiKey
    \/ handleSubmit
    \/ SearchStart
    \/ SearchFails
    \/ SearchAnswers2xx
    \/ SummaryAnswersOne
    \/ handlePlayVideo
    \/ handleChatWithVideo
    \/ handleBackToSearch
    \/ loadTranscript
    \/ fetchTranscript
    \/ \E t \in Running : AutoListAnswers(t)
    \/ \E t \in Running : AutoContentFails(t)
    \/ \E t \in Running : AutoContentAnswers(t)
    \/ \E t \in Running : AutoTimedtextFails(t)
    \/ \E t \in Running : AutoTimedtextAnswers(t)
    \/ \E t \in Running : ChatListAnswers(t)
    \/ \E t \in Running : ChatContentFails(t)
    \/ \E t \in Running : ChatContentAnswers(t)
    \/ \E t \in Running : ChatTimedtextFails(t)
    \/ \E t \in Running : ChatTimedtextAnswers(t)
    \/ \E t \in Running : PlayerTimedtextAnswers(t)
    \/ \E t \in Running : PlayerTimedtextFails(t)

Spec == Init /\ [][Next]_vars

\* the program with the chat requests and the notes
UseNext ==
    \/ Next
    \/ sendMessage
    \/ \E t \in Running : SendAnswers(t)
    \/ testApiKey
    \/ \E t \in Running : TestAnswers(t)
    \/ TypeNotes
    \/ AutoSave
    \/ handleSaveNotes

UseSpec == QuietInit /\ [][UseNext]_vars

\* the program with the chat requests; the notes, which no request and no
\* loading flag depends on, are left out
ChatNext ==
    \/ Next
    \/ sendMessage
    \/ \E t \in Running : SendAnswers(t)
    \/ testApiKey
    \/ \E t \in Running : TestAnswers(t)

ChatSpec == Init /\ [][ChatNext]_vars

\* the program where every remote call is answered or fails in the end:
\* weak fairness of the steps in which a request awaited by the search or
\* by a mounted handler is answered
FairSpec ==
    /\ QuietInit
    /\ [][ChatNext]_vars
    /\ WF_vars(SearchFails \/ SearchAnswers2xx)
    /\ WF_vars(SummaryAnswersOne)
    /\ WF_vars(\E t \in Running :
                   /\ ~t.orphan
                   /\ \/ ChatListAnswers(t)
                      \/ ChatContentFails(t)
                      \/ ChatContentAnswers(t)
                      \/ ChatTimedtextFails(t)
                      \/ ChatTimedtextAnswers(t))
    /\ WF_vars(\E t \in Running :
                   /\ ~t.orphan
                   /\ PlayerTimedtextAnswers(t) \/ PlayerTimedtextFails(t))
    /\ WF_vars(\E t \in Running : ~t.orphan /\ SendAnswers(t))
    /\ WF_vars(\E t \in Running : ~t.orphan /\ TestAnswers(t))

(***************************************************************************)
(* Claims                                                                  *)
(***************************************************************************)
DetailShown == currentView \in {"chat", "player"} /\ selectedVideo # NoVideo

Last(seq) == seq[Len(seq)]

Methods(issued) == {issued[k] : k \in 1..Len(issued)}

\* C1: whenever the Chat or Player screen is shown for a video, the
\* controller's transcript is empty or is a transcript of that video, under
\* every interleaving of play, chat, back and the answers to requests.
C1_NoStaleTranscript ==
    DetailShown =>
        \/ videoTranscript = <<>>
        \/ videoTranscript \in TranscriptsOf(selectedVideo)

\* C2: a step that selects chat from Search ends in Chat with an empty
\* transcript, in the controller and in the chat, whatever the earlier
\* operations left behind.
C2_ChatEntersEmpty ==
    [][(currentView = "search" /\ currentView' = "chat")
          => /\ selectedVideo' # NoVideo
             /\ videoTranscript' = <<>>
             /\ chat'.currentTranscript = <<>>]_vars

\* C3: no acquisition of Index or VideoChat returns right after method 1
\* failed with no caption track or a non-2xx status: the timed-text request
\* is sent next.
C3_Method2AfterMethod1 ==
    (/\ last.kind \in {"auto", "chat"}
     /\ last.issued # <<>>
     /\ last.succeeded = 0
     /\ last.answer \in {"noitems", "non2xx"})
        => Last(last.issued) # 1

\* C4: an acquisition in which the timed-text request failed, by a non-2xx
\* status or an exception, does not return before the player-embed extraction
\* has run.
C4_Method3AfterMethod2 ==
    (last.kind # "none" /\ 2 \in last.failed) => last.tried3

\* C5: a method whose payload holds no segment does not take the success
\* path: an acquisition that a method ended as loaded, or that raised the
\* success notification, stored at least one segment.
C5_EmptyIsFailure ==
    (last.succeeded # 0 \/ last.reported) => last.data # <<>>

Sequential(issued, failed) ==
    \A j, k \in 1..Len(issued) :
        j < k => /\ issued[j] <= issued[k]
                 /\ issued[j] < issued[k] => issued[j] \in failed

\* C7: within one acquisition the requests are sent in the order of the
\* methods, a later method's request only once the earlier method has
\* failed, and none after a method has succeeded; the player-embed
\* extraction runs only after method 2 has failed.
C7_OneAtATimeInOrder ==
    /\ \A t \in Running : Sequential(t.issued, t.failed)
    /\ last.kind # "none" =>
          /\ Sequential(last.issued, last.failed)
          /\ last.succeeded # 0 =>
                \A m \in Methods(last.issued) : m <= last.succeeded
          /\ last.tried3 => 2 \in last.failed

\* loadTranscript: method 1 failed at the caption content, method 2 loaded
C7_Witness ==
    /\ last.kind = "chat"
    /\ last.issued = <<1, 1, 2>>
    /\ last.succeeded = 2
    /\ last.data # <<>>

BothStored == storage.youtube # NULL /\ storage.gemini # NULL

\* C8: the view is Setup with no keys in memory until the mount effect has
\* run; the mount effect moves to Search with the stored values as the keys
\* in memory when both credentials are stored, and leaves Setup otherwise.
C8_Startup ==
    /\ currentView = "setup" /\ apiKeys = NoKeys
    /\ [][(~mounted /\ mounted') =>
             IF BothStored
             THEN /\ currentView' = "search"
                  /\ apiKeys' = [youtube |-> storage.youtube,
                                 gemini  |-> storage.gemini]
             ELSE /\ currentView' = "setup"
                  /\ apiKeys' = NoKeys]_vars

\* started with both credentials stored: Search, the keys in memory
C8_Witness ==
    /\ mounted /\ BothStored
    /\ currentView = "search"
    /\ apiKeys = storage
    /\ videos = <<>> /\ ~isLoading /\ toast = "none"

EitherEmpty ==
    Trim(form.youtubeKey) = <<>> \/ Trim(form.geminiKey) = <<>>

\* C9: a submit of the Setup form with a key that is empty after trimming
\* leaves the view Setup, writes neither credential and leaves the keys in
\* memory unset.
C9_RejectedSubmit ==
    [][(handleSubmit /\ EitherEmpty) =>
          /\ currentView' = "setup"
          /\ storage' = storage
          /\ apiKeys' = NoKeys
          /\ toast' = "Missing API Keys"]_vars

\* rejected: blanks only as the YouTube key, a Gemini key given
C9_Witness ==
    /\ toast = "Missing API Keys"
    /\ form.youtubeKey = <<" ">>
    /\ form.geminiKey = <<" ", "g", " ">>
    /\ currentView = "setup"

\* C10: a submit with both keys non-empty after trimming moves to Search
\* and stores the two trimmed values; no later step changes what is stored.
C10_AcceptedSubmit ==
    [][/\ (handleSubmit /\ ~EitherEmpty) =>
             /\ currentView' = "search"
             /\ storage' = [youtube |-> Trim(form.youtubeKey),
                            gemini  |-> Trim(form.geminiKey)]
       /\ currentView # "setup" => storage' = storage]_vars

\* accepted: the keys are stored, a video is being chatted about
C10_Witness ==
    /\ storage = [youtube |-> <<"y">>, gemini |-> <<"g">>]
    /\ apiKeys = storage
    /\ currentView = "chat"
    /\ videoTranscript # <<>>

\* C11: the credential entries of the local storage change only in a step
\* of an accepted Setup submit, which stores the trimmed fields; searching,
\* play, chat, back, the transcript loads, the chat sends, the key test and
\* the auto-save of the notes leave them as they were.
C11_OnlySetupWritesKeys ==
    [][storage' # storage =>
          /\ mounted /\ currentView = "setup"
          /\ SubmitAccepted(form.youtubeKey, form.geminiKey)
          /\ storage' = SubmittedKeys(form.youtubeKey, form.geminiKey)
          /\ toast' = "API Keys Saved"]_vars

\* notes of A were saved by the timer, then the key was tested from the chat:
\* the keys are the submitted ones
C11_Witness ==
    /\ storage = [youtube |-> <<"y">>, gemini |-> <<"g">>]
    /\ apiKeys = storage
    /\ notesStore["A"] = <<"n">>
    /\ currentView = "chat"
    /\ toast = "API Key Test Successful"

\* a call of the given handler is in flight in the mounted component
InFlight(kind) == \E t \in Running : t.kind = kind /\ ~t.orphan

\* C15: when every remote call is answered or fails in the end, a search, a
\* transcript load of the chat or of the player, a chat send and a key test
\* that has started is followed by a state where its loading flag is false.
C15_LoadingEnds ==
    /\ (search.pc # "idle" /\ isLoading) ~> ~isLoading
    /\ (InFlight("chat") /\ chat.isLoadingTranscript)
          ~> ~chat.isLoadingTranscript
    /\ (InFlight("player") /\ player.isLoadingTranscript)
          ~> ~player.isLoadingTranscript
    /\ (InFlight("send") /\ chat.isLoading) ~> ~chat.isLoading
    /\ (InFlight("test") /\ chat.isLoading) ~> ~chat.isLoading

\* a key test has been answered and the flag of the chat is down again
C15_Witness ==
    /\ ChatMounted
    /\ toast = "API Key Test Failed"
    /\ GeminiKeyUsable
    /\ ~chat.isLoading
    /\ ~InFlight("test")

\* C12: a step that selects play from Search ends in Player with a video of
\* the list selected, the controller's transcript empty, a fresh player and
\* no request started; the player's transcript becomes non-empty only in a
\* step of a load the user started in this player.
C12_PlayEntersEmpty ==
    [][/\ (currentView = "search" /\ currentView' = "player") =>
             /\ selectedVideo' \in ShownVideos
             /\ videoTranscript' = <<>>
             /\ player'.transcript = <<>>
             /\ ~player'.isLoadingTranscript
             /\ tasks' = tasks
       /\ (player'.transcript # player.transcript
              /\ player'.transcript # <<>>) =>
             \E t \in Running :
                /\ t.kind = "player" /\ ~t.orphan
                /\ t.video = selectedVideo
                /\ last'.kind = "player"]_vars

\* the user loaded the transcript in the player
C12_Witness ==
    /\ currentView = "player"
    /\ player.transcript # <<>>
    /\ player.showTranscript
    /\ videoTranscript = player.transcript
    /\ last.kind = "player"

\* C13: while the view is Search no video is selected and the controller's
\* transcript is empty, also when a request sent before the back press
\* answers afterwards.
C13_SearchHasNoTranscript ==
    (mounted /\ currentView = "search") =>
        /\ selectedVideo = NoVideo
        /\ videoTranscript = <<>>

ChatStatusShown ==
    [text    |-> IF Len(chat.currentTranscript) > 0
                 THEN "Transcript loaded"
                 ELSE "No transcript available",
     spinner |-> chat.isLoadingTranscript]

\* an acquisition for the video of the mounted chat is in flight
ChatAcquiring ==
    \E t \in Running :
       /\ t.kind \in {"auto", "chat"}
       /\ ~t.orphan
       /\ t.video = selectedVideo

\* C16: while an acquisition for the video of the chat is in flight, the
\* chat does not show what it shows after an acquisition ended with an
\* empty transcript: "No transcript available" with an idle load button.
C16_PendingIsNotEmpty ==
    (ChatMounted /\ ChatAcquiring) =>
        ChatStatusShown # [text |-> "No transcript available",
                           spinner |-> FALSE]

\* C17: the welcome message of the chat says that the transcript is
\* available exactly when the chat's transcript is non-empty.
C17_WelcomeIffTranscript ==
    ChatMounted =>
        (chat.welcome \in {"has", "now"} <=> chat.currentTranscript # <<>>)

\* C18: for a transcript-XML payload parseTranscriptXML returns one segment
\* per <text> element, in document order, with the element's text content
\* as its text.
C18_OneSegmentPerElement ==
    (parse.parser # "none" /\ parse.payload.root) =>
        /\ Len(parse.entries) = Len(parse.payload.texts)
        /\ \A k \in 1..Len(parse.payload.texts) :
              parse.entries[k].text = parse.payload.texts[k].content

\* two elements, the first without text: two segments
C18_Witness ==
    /\ parse.parser = "xml"
    /\ Len(parse.payload.texts) = 2
    /\ parse.payload.texts[1].content = <<>>
    /\ parse.payload.texts[2].content = <<"A">>
    /\ Len(parse.entries) = 2
    /\ parse.entries[1].text = <<>>

\* the number an attribute stands for: 0 when it is absent, empty or not a
\* number
AttrValue(attr) ==
    IF attr = NULL \/ attr = <<>> \/ ParseFloat(attr).nan
    THEN Num(0)
    ELSE ParseFloat(attr)

NonNegative(x) == ~x.nan /\ x.val >= 0

\* C19: the offset and the duration of a segment are the numbers the start
\* and dur attributes stand for, 0 for an absent, empty or non-numeric
\* attribute, and never negative.
C19_NumericDefaults ==
    parse.parser = "xml" =>
        \A k \in 1..Len(parse.payload.texts) :
           /\ parse.entries[k].offset = AttrValue(parse.payload.texts[k].start)
           /\ parse.entries[k].duration = AttrValue(parse.payload.texts[k].dur)
           /\ NonNegative(parse.entries[k].offset)
           /\ NonNegative(parse.entries[k].duration)

\* the line starts, after blanks, with [MM:SS] or (MM:SS)
LeadingTimestamp(line) ==
    LET t == TrimStart(line)
        d == MinuteDigitsAt(t, 1)
    IN  /\ d > 0
        /\ \/ t[1] = "[" /\ t[d + 5] = "]"
           \/ t[1] = "(" /\ t[d + 5] = ")"

\* the segment the claim gives a line
LineSegment(line) ==
    LET t == TrimStart(line)
        d == MinuteDigitsAt(t, 1)
        rest == Trim(SubSeq(t, d + 6, Len(t)))
        mm == DecVal(SubSeq(t, 2, d + 1))
        ss == DecVal(SubSeq(t, d + 3, d + 4))
    IN  IF LeadingTimestamp(line) /\ rest # <<>>
        THEN <<[text     |-> rest,
                duration |-> Num(0),
                offset   |-> Num((mm * 60 + ss) * Unit)]>>
        ELSE <<>>

RECURSIVE LineSegments(_)
LineSegments(lines) ==
    IF lines = <<>> THEN <<>>
    ELSE LineSegment(Head(lines)) \o LineSegments(Tail(lines))

\* C20: for a plain-text payload parseTranscriptText gives, in line order,
\* one segment per line with a leading timestamp and text after it, with
\* offset MM*60 + SS, duration 0 and that text, and nothing for any other
\* line.
C20_LeadingTimestampLines ==
    (parse.parser = "text" /\ ~parse.payload.root) =>
        parse.entries = LineSegments(parse.payload.lines)

\* C21: every segment a parser returns, which is what the acquisition
\* handlers store, has a text that is not empty after trimming.
C21_NoEmptyText ==
    parse.parser # "none" =>
        \A k \in 1..Len(parse.entries) : Trim(parse.entries[k].text) # <<>>

\* the number is not NaN
Numeric(x) == ~x.nan

\* C22: the segments a parser returns are in the order of the payload and
\* their offsets do not decrease along the sequence.
C22_OffsetsNonDecreasing ==
    parse.parser # "none" =>
        \A k \in 1..(Len(parse.entries) - 1) :
           (Numeric(parse.entries[k].offset)
               /\ Numeric(parse.entries[k + 1].offset))
              => parse.entries[k].offset.val <= parse.entries[k + 1].offset.val

\* C24: for a transcript of the XML parser, the export writes for every
\* segment the line "[" formatTime(offset) "] " text, so its lines are the
\* rows of the transcript panel in the same order.
C24_ExportMatchesScreen ==
    (parse.parser = "xml" /\ parse.saved) =>
        LET rows == TranscriptRows(parse.entries)
        IN  /\ Len(parse.content) = Len(rows)
            /\ \A k \in 1..Len(rows) :
                  parse.content[k] =
                     <<"[">> \o rows[k].time \o <<"]", " ">> \o rows[k].text

\* offsets 1.5 and 5 exported as [0:01] A and [0:05] A
C24_Witness ==
    /\ parse.parser = "xml" /\ parse.saved
    /\ Len(parse.entries) = 2
    /\ parse.entries[1].offset = Num(15)
    /\ parse.content[1] = <<"[", "0", ":", "0", "1", "]", " ", "A">>
    /\ parse.content[2] = <<"[", "0", ":", "0", "5", "]", " ", "A">>

\* C25: when the summaries of a search that returned n items have all been
\* answered, whatever the answers, the list holds n videos, the k-th with
\* the id of the k-th item; a search that returned no item leaves the list
\* empty.
C25_OneVideoPerItem ==
    [][/\ (search.pc = "summaries" /\ search'.pc = "idle") =>
             /\ Len(videos') = Len(search.items)
             /\ \A k \in 1..Len(search.items) :
                   /\ videos'[k].id = search.items[k]
                   /\ videos'[k].id \in VideoIds
       /\ (search.pc = "search" /\ search'.pc = "idle"
             /\ toast' # "Search Error") => videos' = <<>>]_vars

\* the last summary request of a search with two items has failed
C25_Witness ==
    /\ last = Summarised("throw")
    /\ search.pc = "idle"
    /\ ~isLoading
    /\ Len(videos) = 2
    /\ videos[1].id = "A" /\ videos[2].id = "B"

\* C30: a step in which a search fails changes the loading flag and the
\* notification and nothing else of what the user sees: the list, the
\* selected video, the transcripts and the view stay as they were.
C30_FailedSearchFrame ==
    [][(search.pc = "search" /\ toast' = "Search Error") =>
          /\ ~isLoading'
          /\ UNCHANGED <<videos, selectedVideo, videoTranscript, currentView,
                         apiKeys, storage, chat, player, tasks>>]_vars

\* a search failed while the player shows a video of the earlier list
C30_Witness ==
    /\ toast = "Search Error"
    /\ currentView = "player"
    /\ selectedVideo = "B"
    /\ Len(videos) = 2
    /\ ~isLoading

\* C27: in the views Player and Chat a video is selected and in the view
\* Search none is, so the screen rendered is the one of the view.
C27_ViewMatchesSelection ==
    /\ currentView \in {"player", "chat"} => selectedVideo \in VideoIds
    /\ currentView = "search" => selectedVideo = NoVideo
    /\ Screen = currentView

\* back was pressed while a request of the detail view was in flight
C27_Witness ==
    /\ currentView = "search"
    /\ selectedVideo = NoVideo
    /\ \E t \in Running : t.orphan /\ t.video = "A"

\* C28: outside the view Setup the keys in memory are set and neither is
\* empty: a search is started when submitted and entering a chat attempts
\* the caption listing.
C28_KeysSetOutsideSetup ==
    currentView # "setup" =>
        /\ apiKeys # NoKeys
        /\ Truthy(apiKeys.youtube) /\ Truthy(apiKeys.gemini)
        /\ AutoAttempts

\* the keys were submitted, and the chat entered with them has its listing
\* request in flight
C28_Witness ==
    /\ currentView = "chat"
    /\ apiKeys = [youtube |-> <<"y">>, gemini |-> <<"g">>]
    /\ toast = "none"
    /\ \E t \in Running : t.kind = "auto" /\ t.pc = "list" /\ ~t.orphan

\* C23: the prompt of a request sendMessage starts consists of the title
\* and the description of the current video, then the texts of the chat's
\* current transcript joined by single spaces when that transcript is not
\* empty, then the question just asked, and of nothing else.
C23_PromptParts ==
    [][\A t \in Running' :
          (t.kind = "send" /\ ~t.orphan /\ t \notin Running) =>
             /\ Last(chat'.messages).sender = "user"
             /\ t.body[1] = Section("YouTube Video", TitleOf(selectedVideo))
             /\ t.body[2] =
                   Section("Description", DescriptionOf(selectedVideo))
             /\ Last(t.body) =
                   Section("User Question", Last(chat'.messages).content)
             /\ IF chat.currentTranscript # <<>>
                THEN /\ Len(t.body) = 4
                     /\ t.body[3] =
                           Section("Video Transcript",
                                   JoinTexts(chat.currentTranscript))
                ELSE Len(t.body) = 3]_vars

\* a second question about A, asked with A's transcript of two segments
C23_Witness ==
    /\ ChatMounted /\ selectedVideo = "A"
    /\ Len(chat.messages) = 2
    /\ \E t \in Running :
          /\ t.kind = "send" /\ ~t.orphan
          /\ Len(t.body) = 4
          /\ t.body[3].text = <<"A", "!", " ", "o", "k">>
          /\ t.body[4].text = <<"q">>

\* the statuses with a message of their own, and the message of the others
SpecificStatuses == {"400", "401", "403", "429", "500"}
GenericFailure == <<"Failed", "to", "get", "AI", "response">>

\* C26: when a send is answered with a non-2xx status, "Chat Error" is
\* raised with the message of the status followed by the status, the
\* messages of 400, 401, 403, 429 and 500 differ from each other and from
\* the generic message every other status gets, and no message is appended
\* to the chat.
C26_StatusMessages ==
    [][(last'.kind = "send" /\ last'.answer \in Statuses) =>
          /\ toast' = "Chat Error"
          /\ chat'.messages = chat.messages
          /\ last'.description =
                StatusMessage(last'.answer)
                   \o <<"(Status:", last'.answer, ")">>
          /\ IF last'.answer \in SpecificStatuses
             THEN /\ StatusMessage(last'.answer) # GenericFailure
                  /\ \A other \in SpecificStatuses \ {last'.answer} :
                        StatusMessage(other) # StatusMessage(last'.answer)
             ELSE StatusMessage(last'.answer) = GenericFailure]_vars

\* a question was refused with 429
C26_Witness ==
    /\ ChatMounted
    /\ last.kind = "send" /\ last.answer = "429"
    /\ toast = "Chat Error"
    /\ last.description =
          <<"Rate", "limit", "exceeded.", "Please", "wait", "a", "moment",
            "and", "try", "again.", "(Status:", "429", ")">>
    /\ chat.messages = <<UserMessage(<<"q">>)>>
    /\ ~chat.isLoading

\* the requests of the mounted chat that are in flight
ChatRequests == {t \in Running : t.kind \in {"send", "test"} /\ ~t.orphan}

\* C29: a chat has at most one request in flight; the messages of a chat
\* change only by one user message, appended by a send that is accepted
\* while no request is in progress and before its request, or by one AI
\* message, appended when the request of a send is answered 2xx; while a
\* request is in progress no send starts another.
C29_OneSendAtATime ==
    /\ [](/\ Cardinality(ChatRequests) <= 1
          /\ \A t \in ChatRequests : CopiesIn(t, tasks) = 1)
    /\ [][(ChatMounted /\ ChatMounted') =>
             /\ chat'.messages # chat.messages =>
                   \/ /\ Len(chat'.messages) = Len(chat.messages) + 1
                      /\ SubSeq(chat'.messages, 1, Len(chat.messages))
                            = chat.messages
                      /\ Last(chat'.messages).sender = "user"
                      /\ Trim(Last(chat'.messages).content) # <<>>
                      /\ ~chat.isLoading
                      /\ ChatRequests = {}
                      /\ \/ chat'.isLoading /\ Cardinality(ChatRequests') = 1
                         \/ toast' = "Chat Error" /\ ~chat'.isLoading
                   \/ /\ chat'.messages = Append(chat.messages, AiMessage)
                      /\ last'.kind = "send" /\ last'.answer = "ok"
                      /\ toast' = "none"
                      /\ ChatRequests' = {}
             /\ chat.isLoading => ChatRequests' \subseteq ChatRequests]_vars

\* a second question is in flight after the first one was answered
C29_Witness ==
    /\ ChatMounted
    /\ chat.messages =
          <<UserMessage(<<"q">>), AiMessage, UserMessage(<<"q">>)>>
    /\ chat.isLoading
    /\ \E t \in Running : t.kind = "send" /\ ~t.orphan

====
